---- MODULE Spec2Model ----
(***************************************************************************)
(* Sales discovery bot: the conversation graph of src/agent/logic.py, the  *)
(* extraction, proposal and tier helpers of src/agent/tools.py and the     *)
(* records of src/agent/state.py.                                          *)
(*                                                                         *)
(* Python values are modelled as follows.                                  *)
(*  - A JSON / Python value is a record [t, s, n, l]: t is its type tag    *)
(*    ("absent" is a key missing from a dict, "null" is None), s its       *)
(*    string, n its integer, l its list of strings.                        *)
(*  - A dict is a function from its possible keys to such values.          *)
(*  - A text is a sequence of fragments.  A completion text is a sequence  *)
(*    of tokens: the fence "<fence>" (three backquotes), the word "json",  *)
(*    whitespace " ", prose "txt", and whole JSON documents.               *)
(*  - A call that may raise yields [raised, value].                        *)
(*                                                                         *)
(* The compiled graph has a checkpointer and no interrupt: graph.ainvoke   *)
(* applies its input to the thread's state, starts at the entry node and   *)
(* runs node after node to END, saving the state after each node; an error *)
(* in a node leaves ainvoke with the state as the last finished node left  *)
(* it.  process_message is therefore one action per graph step.  A node's  *)
(* update is what it returns; whether the assignment to its state argument *)
(* in _understand_business also reaches the thread's state is left to the  *)
(* graph runtime, so both outcomes are modelled (inPlaceKept).             *)
(*                                                                         *)
(* Spec is one conversation under serial process_message calls; SpecFair   *)
(* adds fairness of the run's steps, SpecScenario fixes the prospect,      *)
(* SpecPair interleaves the calls of two conversations, SpecChat puts the  *)
(* chat endpoint of src/api/main.py and the tables of src/api/database.py  *)
(* around the agent, SpecStore lets the store fail, SpecRestart restarts   *)
(* the process between requests, SpecStartup begins before the agent is    *)
(* made, SpecWorker is the background worker of src/jobs/worker.py,        *)
(* SpecTools applies the helpers to bounded inputs.                        *)
(***************************************************************************)
EXTENDS Integers, Sequences, FiniteSets, TLC

VARIABLES
    values,     \* checkpointed graph state of the thread: <<>> or <<state>>
    pc,         \* position of the process_message call in flight
    input,      \* arguments of the call in flight
    result,     \* outcome of the last process_message call
    llm_calls,  \* Completion Service calls made by the call in flight
    turns,      \* process_message calls started so far
    inPlaceKept,\* whether the graph runtime keeps a node's in-place write
    fn,         \* helper under test in the helper specifications
    arg,        \* its argument
    out,        \* its outcome
    completion, \* outcome of the last Completion Service call of the call in flight
    path,       \* graph nodes the call in flight has run, in order
    chat,       \* the chat request in flight at the API
    db,         \* the database tables
    metrics,    \* the counters of the API
    threads,    \* two conversations: the checkpointed state of each thread
    frames,     \* two conversations: position and outcome of each one's call
    solo,       \* two conversations: each one's calls run on an agent of its own
    worker      \* the background worker of src/jobs/worker.py

\* the variables of the API layer, which the agent never touches
api == <<chat, db, metrics>>

\* the variables of the specification of two conversations
pair == <<threads, frames, solo>>

\* the variables of the specifications of one conversation
single == <<values, pc, input, result, llm_calls, turns, fn, arg, out, completion, path>>

vars == <<values, pc, input, result, llm_calls, turns, inPlaceKept, fn, arg, out,
          completion, path, chat, db, metrics, threads, frames, solo, worker>>

----------------------------------------------------------------------------
(* Bounds of the model *)

MaxTurns == 3
MaxTextLen == 3
MaxTeamSize == 52
MaxWasters == 4

----------------------------------------------------------------------------
(* Python / JSON values *)

JAbsent == [t |-> "absent", s |-> "", n |-> 0, l |-> <<>>]
JNull == [t |-> "null", s |-> "", n |-> 0, l |-> <<>>]
JStr(x) == [t |-> "str", s |-> x, n |-> 0, l |-> <<>>]
JInt(k) == [t |-> "int", s |-> "", n |-> k, l |-> <<>>]
JList(q) == [t |-> "list", s |-> "", n |-> 0, l |-> q]

\* Python truthiness of a value (None, "", 0 and [] are falsy)
Truthy(v) ==
    CASE v.t = "str" -> v.s # ""
      [] v.t = "int" -> v.n # 0
      [] v.t = "list" -> Len(v.l) > 0
      [] OTHER -> FALSE

BusinessKeys ==
    {"business_type", "team_size", "biggest_challenge", "time_wasters", "current_tools"}

ProposalKeys ==
    {"agent_name", "description", "time_saved", "integrations", "success_metric",
     "delivery_time"}

Keys == BusinessKeys \cup ProposalKeys

\* {} restricted to the keys of business_info
EmptyDict == [k \in BusinessKeys |-> JAbsent]

\* a dict built from the object o, keeping the keys ks
Restrict(o, ks) == [k \in ks |-> o[k]]

\* dict.get(key, default)
Get(d, key, default) == IF d[key].t = "absent" THEN default ELSE d[key]

----------------------------------------------------------------------------
(* src/agent/state.py *)

\* BusinessInfo(): every field at its default, as .dict() shows it
BusinessInfo ==
    [k \in BusinessKeys |->
        IF k \in {"time_wasters", "current_tools"} THEN JList(<<>>) ELSE JNull]

OptionalOk(v, tag) == v.t \in {"absent", "null", tag}

OptionalField(v) == IF v.t = "absent" THEN JNull ELSE v

ListField(v) == IF v.t = "absent" THEN JList(<<>>) ELSE v

\* BusinessInfo built from data: field validation; extra keys are ignored
BusinessInfoValid(data) ==
    /\ OptionalOk(data["business_type"], "str")
    /\ OptionalOk(data["team_size"], "int")
    /\ OptionalOk(data["biggest_challenge"], "str")
    /\ data["time_wasters"].t \in {"absent", "list"}
    /\ data["current_tools"].t \in {"absent", "list"}

BusinessInfoOf(data) ==
    [k \in BusinessKeys |->
        IF k \in {"time_wasters", "current_tools"}
        THEN ListField(data[k]) ELSE OptionalField(data[k])]

\* MVPProposal built from data: five required fields, delivery_time defaulted
MVPProposalValid(data) ==
    /\ \A k \in {"agent_name", "description", "time_saved", "success_metric"} :
          data[k].t = "str"
    /\ data["integrations"].t = "list"
    /\ data["delivery_time"].t \in {"absent", "str"}

MVPProposal(data) ==
    [k \in ProposalKeys |->
        IF k = "delivery_time" THEN Get(data, k, JStr("2-3 weeks")) ELSE data[k]]

----------------------------------------------------------------------------
(* Completion texts *)

Fence == <<"<fence>">>
FenceJson == <<"<fence>", "json">>

\* an object with the given fields and every other key missing
Obj(fields) == [k \in Keys |-> IF k \in DOMAIN fields THEN fields[k] ELSE JAbsent]

BizFull ==
    Obj([business_type |-> JStr("logistics"), team_size |-> JInt(60),
         biggest_challenge |-> JStr("scheduling"),
         time_wasters |-> JList(<<"dispatch", "invoicing">>),
         current_tools |-> JList(<<"Excel">>)])

BizPartial == Obj([business_type |-> JStr("agency"), team_size |-> JNull])

BizBadType == Obj([business_type |-> JStr("agency"), team_size |-> JStr("many")])

PropFull ==
    Obj([agent_name |-> JStr("Lead Tracker Pro"), description |-> JStr("captures leads"),
         time_saved |-> JStr("15 hours/week"), integrations |-> JList(<<"CRM">>),
         success_metric |-> JStr("50% faster")])

PropMissing ==
    Obj([agent_name |-> JStr("Lead Tracker Pro"), description |-> JStr("captures leads")])

DocTokens == {"{biz_full}", "{biz_partial}", "{biz_badtype}", "{prop_full}",
              "{prop_missing}", "[1,2]"}

Tokens == {"<fence>", "json", " ", "txt"} \cup DocTokens

\* what json.loads makes of a document token
DocValue(tok) ==
    CASE tok = "{biz_full}" -> [isobj |-> TRUE, obj |-> BizFull]
      [] tok = "{biz_partial}" -> [isobj |-> TRUE, obj |-> BizPartial]
      [] tok = "{biz_badtype}" -> [isobj |-> TRUE, obj |-> BizBadType]
      [] tok = "{prop_full}" -> [isobj |-> TRUE, obj |-> PropFull]
      [] tok = "{prop_missing}" -> [isobj |-> TRUE, obj |-> PropMissing]
      [] OTHER -> [isobj |-> FALSE, obj |-> Obj(<<>>)]

\* least index at which pat occurs in s, 0 if none
IndexOf(s, pat) ==
    LET hits == {i \in 1..(Len(s) - Len(pat) + 1) : SubSeq(s, i, i + Len(pat) - 1) = pat}
    IN  IF hits = {} THEN 0 ELSE CHOOSE i \in hits : \A j \in hits : i <= j

\* pat in s
Contains(s, pat) == IndexOf(s, pat) # 0

\* s.split(pat)
RECURSIVE Split(_, _)
Split(s, pat) ==
    LET i == IndexOf(s, pat)
    IN  IF i = 0 THEN <<s>>
        ELSE <<SubSeq(s, 1, i - 1)>> \o Split(SubSeq(s, i + Len(pat), Len(s)), pat)

\* s.strip()
RECURSIVE Strip(_)
Strip(s) ==
    IF s = <<>> THEN s
    ELSE IF Head(s) = " " THEN Strip(Tail(s))
    ELSE IF s[Len(s)] = " " THEN Strip(SubSeq(s, 1, Len(s) - 1))
    ELSE s

\* fenced code block handling that knows only the fence marked json
UnfenceJsonOnly(json_str) ==
    IF Contains(json_str, FenceJson)
    THEN Split(Split(json_str, FenceJson)[2], Fence)[1]
    ELSE json_str

\* the fenced code block handling shared by both helpers
Unfence(json_str) ==
    IF Contains(json_str, FenceJson)
    THEN Split(Split(json_str, FenceJson)[2], Fence)[1]
    ELSE IF Contains(json_str, Fence)
    THEN Split(Split(json_str, Fence)[2], Fence)[1]
    ELSE json_str

\* json.loads: [ok, isobj, obj]; ok is FALSE where it raises
JsonLoads(s) ==
    IF Len(s) = 1 /\ s[1] \in DocTokens
    THEN [ok |-> TRUE, isobj |-> DocValue(s[1]).isobj, obj |-> DocValue(s[1]).obj]
    ELSE [ok |-> FALSE, isobj |-> FALSE, obj |-> Obj(<<>>)]

Returned(v) == [raised |-> FALSE, value |-> v]
Raised == [raised |-> TRUE, value |-> <<>>]

\* outcomes of llm.ainvoke: a completion text, or an error
LlmText(text) == [ok |-> TRUE, content |-> text]
LlmError == [ok |-> FALSE, content |-> <<>>]

----------------------------------------------------------------------------
(* src/agent/tools.py *)

\* extract_business_info without its except branch: a parse or validation
\* error leaves the function
extract_business_info_unguarded(llm, messages) ==
    IF ~llm.ok THEN Raised
    ELSE LET data == JsonLoads(Strip(Unfence(llm.content)))
         IN  IF data.ok /\ data.isobj /\ BusinessInfoValid(data.obj)
             THEN Returned(BusinessInfoOf(data.obj))
             ELSE Raised

\* extract_business_info: llm is the outcome of llm.ainvoke on the prompt
\* built from messages; the call is made outside the try block
extract_business_info(llm, messages) ==
    IF ~llm.ok THEN Raised
    ELSE LET data == JsonLoads(Strip(Unfence(llm.content)))
         IN  IF data.ok /\ data.isobj /\ BusinessInfoValid(data.obj)
             THEN Returned(BusinessInfoOf(data.obj))
             ELSE Returned(BusinessInfo)

FallbackProposal ==
    [k \in ProposalKeys |->
        CASE k = "agent_name" -> JStr("Process Automation Assistant")
          [] k = "description" ->
                JStr("Automates your most time-consuming task with AI-powered intelligence.")
          [] k = "time_saved" -> JStr("10+ hours/week")
          [] k = "integrations" -> JList(<<"Email", "Spreadsheets">>)
          [] k = "success_metric" -> JStr("90% reduction in manual processing time")
          [] OTHER -> JStr("2-3 weeks")]

\* generate_mvp_proposal whose except branch keeps what the completion gave
generate_mvp_proposal_partial(llm, messages, business_info, identified_task) ==
    IF ~llm.ok THEN Raised
    ELSE LET data == JsonLoads(Strip(Unfence(llm.content)))
         IN  IF data.ok /\ data.isobj /\ MVPProposalValid(data.obj)
             THEN Returned(MVPProposal(Restrict(data.obj, ProposalKeys)))
             ELSE IF data.ok /\ data.isobj
             THEN Returned([k \in ProposalKeys |->
                              Get(data.obj, k, FallbackProposal[k])])
             ELSE Returned(FallbackProposal)

\* generate_mvp_proposal: llm is the outcome of llm.ainvoke on the prompt
generate_mvp_proposal(llm, messages, business_info, identified_task) ==
    IF ~llm.ok THEN Raised
    ELSE LET data == JsonLoads(Strip(Unfence(llm.content)))
         IN  IF data.ok /\ data.isobj /\ MVPProposalValid(data.obj)
             THEN Returned(MVPProposal(Restrict(data.obj, ProposalKeys)))
             ELSE Returned(FallbackProposal)

\* determine_partnership_tier that lifts the tier of a fallback proposal
determine_partnership_tier_by_proposal(business_info, mvp_proposal) ==
    LET got == Get(business_info, "team_size", JInt(0))
        team_size == IF Truthy(got) THEN got.n ELSE 0
    IN  IF team_size > 50 THEN "enterprise"
        ELSE IF team_size > 15
                \/ Len(Get(business_info, "time_wasters", JList(<<>>)).l) > 3
                \/ mvp_proposal = FallbackProposal
        THEN "growth"
        ELSE "starter"

\* determine_partnership_tier with the enterprise threshold included
determine_partnership_tier_inclusive(business_info, mvp_proposal) ==
    LET got == Get(business_info, "team_size", JInt(0))
        team_size == IF Truthy(got) THEN got.n ELSE 0
    IN  IF team_size >= 50 THEN "enterprise"
        ELSE IF team_size > 15
                \/ Len(Get(business_info, "time_wasters", JList(<<>>)).l) > 3
        THEN "growth"
        ELSE "starter"

determine_partnership_tier(business_info, mvp_proposal) ==
    LET got == Get(business_info, "team_size", JInt(0))
        team_size == IF Truthy(got) THEN got.n ELSE 0
    IN  IF team_size > 50 THEN "enterprise"
        ELSE IF team_size > 15
                \/ Len(Get(business_info, "time_wasters", JList(<<>>)).l) > 3
        THEN "growth"
        ELSE "starter"

----------------------------------------------------------------------------
(* Inputs of the helper specification *)

\* every token sequence of at most MaxTextLen tokens
ShortTexts == UNION {[1..n -> Tokens] : n \in 0..MaxTextLen}

\* a document in a fenced block or bare, with prose and whitespace around it
FramedTexts ==
    {pre \o open \o pad \o body \o pad \o close \o post :
        pre \in {<<>>, <<"txt", " ">>},
        open \in {<<>>, Fence, FenceJson},
        pad \in {<<>>, <<" ">>},
        body \in {<<d>> : d \in DocTokens} \cup {<<"txt">>},
        close \in {<<>>, Fence},
        post \in {<<>>, <<" ", "txt">>}}

Texts == ShortTexts \cup FramedTexts

LlmOutcomes == {LlmError} \cup {LlmText(t) : t \in Texts}

Wasters(k) == [i \in 1..k |-> "task"]

TierInfos ==
    {[EmptyDict EXCEPT !["team_size"] = ts, !["time_wasters"] = tw] :
        ts \in {JAbsent, JNull} \cup {JInt(k) : k \in -1..MaxTeamSize},
        tw \in {JAbsent} \cup {JList(Wasters(k)) : k \in 0..MaxWasters}}

TierProposals == {[k \in ProposalKeys |-> JAbsent], FallbackProposal}

MaxQuestionsAsked == 4

\* business_info dicts for the exit decision: each of the two fields it reads
\* missing, None, empty or filled
DecisionInfos ==
    {[EmptyDict EXCEPT !["business_type"] = bt, !["biggest_challenge"] = bc] :
        bt \in {JAbsent, JNull, JStr(""), JStr("agency")},
        bc \in {JAbsent, JNull, JStr(""), JStr("scheduling")}}

DecisionStates ==
    [questions_asked : 0..MaxQuestionsAsked, business_info : DecisionInfos]

----------------------------------------------------------------------------
(* src/agent/prompts.py, src/agent/config.py *)

\* QUESTION_PROMPTS["understand"]
QuestionsUnderstand ==
    <<"What does your business do and what's your biggest operational challenge?",
      "How many people are on your team and what takes up most of their time?",
      "What manual process frustrates you the most?">>

\* QUESTION_PROMPTS["scope"] formatted with task; a text is a sequence of fragments
QuestionsScope(task) ==
    <<"Walk me through the current process for ">> \o task
        \o <<". What are the inputs and outputs?",
             "What tools or systems does this process interact with?",
             "How do you measure success for this task currently?">>

\* QUESTION_PROMPTS["calendly"] formatted with config.calendly_url
CalendlyPrompt ==
    <<"Perfect! The next step is to book a 30-minute demo where I'll show you exactly how this will work: ",
      "https://calendly.com/justin-erezcapital/30min">>

\* tier_details[tier], with the prices of AgentConfig
TierDetails(tier) ==
    CASE tier = "starter" -> "Starter Partnership ($1250/month)"
      [] tier = "growth" -> "Growth Partnership ($2500/month)"
      [] tier = "enterprise" -> "Enterprise Partnership ($5000/month)"

----------------------------------------------------------------------------
(* src/agent/logic.py: the conversation graph *)

HumanMessage(content) == [type |-> "human", content |-> content]
AIMessage(content) == [type |-> "ai", content |-> content]

\* Python truthiness of a text
TruthyText(content) == \E i \in 1..Len(content) : content[i] # ""

Stages == <<"start", "understand", "identify", "scope", "propose", "recommend", "complete">>

\* a graph whose messages key has no reducer: every key by overwrite
ApplyOverwrite(state, update) ==
    [k \in DOMAIN state |-> IF k \in DOMAIN update THEN update[k] ELSE state[k]]

\* the graph applies a node's update: messages through add_messages (append),
\* every other key by overwrite
Apply(state, update) ==
    [k \in DOMAIN state |->
        IF k \in DOMAIN update
        THEN IF k = "messages" THEN state[k] \o update[k] ELSE update[k]
        ELSE state[k]]

\* the dict a node returns on top of its in-place writes to its state argument
Merge(update, inplace) ==
    [k \in DOMAIN update \cup DOMAIN inplace |->
        IF k \in DOMAIN update THEN update[k] ELSE inplace[k]]

NoUpdate == [k \in {} |-> <<>>]

\* _understand_business that asks the entry after the one that is due
_understand_business_skipping(state, llm, kept) ==
    LET questions_asked == state.questions_asked
        business_info == extract_business_info(llm, state.messages)
        inplace == IF state.messages # <<>> /\ kept
                   THEN [business_info |-> business_info.value]
                   ELSE NoUpdate
        due == IF questions_asked + 2 <= Len(QuestionsUnderstand)
               THEN questions_asked + 2 ELSE 1
    IN  IF state.messages # <<>> /\ business_info.raised THEN Raised
        ELSE IF questions_asked < Len(QuestionsUnderstand)
        THEN Returned(Merge([messages |-> <<AIMessage(<<QuestionsUnderstand[due]>>)>>,
                             questions_asked |-> questions_asked + 1,
                             stage |-> "understand"], inplace))
        ELSE Returned(Merge([stage |-> "identify"], inplace))

\* llm is the outcome of the one completion call the node may make; kept says
\* whether the write state["business_info"] = ... outlives the node
_understand_business(state, llm, kept) ==
    LET questions_asked == state.questions_asked
        business_info == extract_business_info(llm, state.messages)
        inplace == IF state.messages # <<>> /\ kept
                   THEN [business_info |-> business_info.value]
                   ELSE NoUpdate
    IN  IF state.messages # <<>> /\ business_info.raised THEN Raised
        ELSE IF questions_asked < Len(QuestionsUnderstand)
        THEN Returned(Merge([messages |-> <<AIMessage(<<QuestionsUnderstand[questions_asked + 1]>>)>>,
                             questions_asked |-> questions_asked + 1,
                             stage |-> "understand"], inplace))
        ELSE Returned(Merge([stage |-> "identify"], inplace))

\* _should_continue_understanding without the cap of 3 questions
_should_continue_understanding_uncapped(state) ==
    LET questions_asked == state.questions_asked
        business_info == state.business_info
    IN  IF questions_asked < 2 THEN "continue"
        ELSE IF Truthy(Get(business_info, "business_type", JNull))
                /\ Truthy(Get(business_info, "biggest_challenge", JNull))
        THEN "next"
        ELSE "continue"

\* _should_continue_understanding that is content with one of the two fields
_should_continue_understanding_either(state) ==
    LET questions_asked == state.questions_asked
        business_info == state.business_info
    IN  IF questions_asked < 2 THEN "continue"
        ELSE IF Truthy(Get(business_info, "business_type", JNull))
                \/ Truthy(Get(business_info, "biggest_challenge", JNull))
        THEN "next"
        ELSE IF questions_asked >= 3 THEN "next"
        ELSE "continue"

_should_continue_understanding(state) ==
    LET questions_asked == state.questions_asked
        business_info == state.business_info
    IN  IF questions_asked < 2 THEN "continue"
        ELSE IF Truthy(Get(business_info, "business_type", JNull))
                /\ Truthy(Get(business_info, "biggest_challenge", JNull))
        THEN "next"
        ELSE IF questions_asked >= 3 THEN "next"
        ELSE "continue"

_identify_mvp(state, llm) ==
    IF ~llm.ok THEN Raised
    ELSE Returned([messages |-> <<AIMessage(llm.content)>>, stage |-> "identify"])

\* content of the last HumanMessage, <<>> standing for None
LastHuman(messages) ==
    LET hs == {i \in 1..Len(messages) : messages[i].type = "human"}
    IN  IF hs = {} THEN <<>>
        ELSE <<messages[CHOOSE i \in hs : \A j \in hs : j <= i].content>>

\* _scope_mvp that takes the last human message even when its text is empty
_scope_mvp_any_text(state) ==
    LET last_human_msg == LastHuman(state.messages)
        identified_task ==
            IF last_human_msg # <<>>
            THEN last_human_msg[1]
            ELSE <<"the process you mentioned">>
    IN  Returned([messages |-> <<AIMessage(QuestionsScope(identified_task))>>,
                  identified_task |-> <<identified_task>>,
                  stage |-> "scope"])

_scope_mvp(state) ==
    LET last_human_msg == LastHuman(state.messages)
        identified_task ==
            IF last_human_msg # <<>> /\ TruthyText(last_human_msg[1])
            THEN last_human_msg[1]
            ELSE <<"the process you mentioned">>
    IN  Returned([messages |-> <<AIMessage(QuestionsScope(identified_task))>>,
                  identified_task |-> <<identified_task>>,
                  stage |-> "scope"])

FormattedProposal(proposal) ==
    <<"Here's your MVP AI Agent proposal:", proposal["agent_name"].s,
      proposal["description"].s, proposal["time_saved"].s>>
        \o proposal["integrations"].l
        \o <<proposal["success_metric"].s, proposal["delivery_time"].s>>

_create_proposal(state, llm) ==
    LET proposal == generate_mvp_proposal(
                        llm, state.messages, state.business_info,
                        IF state.identified_task = <<>> THEN <<"">>
                        ELSE state.identified_task[1])
    IN  IF proposal.raised THEN Raised
        ELSE Returned([messages |-> <<AIMessage(FormattedProposal(proposal.value))>>,
                       mvp_proposal |-> <<proposal.value>>,
                       stage |-> "propose"])

_recommend_tier(state) ==
    LET mvp_proposal == IF state.mvp_proposal = <<>>
                        THEN [k \in ProposalKeys |-> JAbsent]
                        ELSE state.mvp_proposal[1]
        tier == determine_partnership_tier(state.business_info, mvp_proposal)
    IN  Returned([messages |->
                     <<AIMessage(<<"Recommended Partnership: ", TierDetails(tier),
                                   Get(mvp_proposal, "agent_name", JStr("AI agent")).s>>)>>,
                  partnership_tier |-> <<tier>>,
                  stage |-> "recommend"])

\* _book_demo that leaves calendly_shown out of its update
_book_demo_unflagged(state) ==
    Returned([messages |-> <<AIMessage(CalendlyPrompt)>>,
              stage |-> "complete"])

_book_demo(state) ==
    Returned([messages |-> <<AIMessage(CalendlyPrompt)>>,
              calendly_shown |-> TRUE,
              stage |-> "complete"])

----------------------------------------------------------------------------
(* src/agent/logic.py: process_message, one action per graph step *)

ConversationIds == {"c1"}
Sources == {"widget", "api"}
UserTexts == {"scheduling is a mess", ""}

\* outcomes of the extraction call: its failure, a bare document, a fenced
\* document with fields missing, prose
ExtractionOutcomes ==
    {LlmError,
     LlmText(<<"{biz_full}">>),
     LlmText(FenceJson \o <<" ", "{biz_partial}", " ">> \o Fence),
     LlmText(<<"txt">>)}

\* outcomes of the identify call, whose text is passed on unparsed
IdentifyOutcomes == {LlmError, LlmText(<<"txt">>)}

\* outcomes of the proposal call
ProposalOutcomes ==
    {LlmError,
     LlmText(<<"txt", " ">> \o FenceJson \o <<"{prop_full}">> \o Fence),
     LlmText(<<"txt">>)}

NoCall == LlmText(<<>>)

NoInput == [conversation_id |-> "", message |-> "", source |-> "", current_state |-> <<>>]

NoResult ==
    [status |-> "none", response |-> <<>>, stage |-> "", conversation_id |-> "",
     calendly_shown |-> FALSE]

RaisedResult ==
    [status |-> "raised", response |-> <<>>, stage |-> "", conversation_id |-> "",
     calendly_shown |-> FALSE]

\* the state of the thread while a call is in flight or after it
St == values[1]

\* initial_state; the keys it leaves out are unset (<<>>)
InitialState(conversation_id, source, now) ==
    [messages |-> <<>>,
     conversation_id |-> conversation_id,
     source |-> source,
     stage |-> "start",
     business_info |-> EmptyDict,
     questions_asked |-> 0,
     started_at |-> now,
     calendly_shown |-> FALSE,
     identified_task |-> <<>>,
     mvp_proposal |-> <<>>,
     partnership_tier |-> <<>>]

\* process_message that also initialises a thread it finds complete
GraphInputReinit(current_state, conversation_id, message, source, now) ==
    IF current_state = <<>> \/ current_state[1].stage = "complete"
    THEN <<InitialState(conversation_id, source, now)>>
    ELSE <<Apply(current_state[1], [messages |-> <<HumanMessage(<<message>>)>>])>>

\* process_message that also hands the source and the time of a later call
GraphInputRestamped(current_state, conversation_id, message, source, now) ==
    IF current_state = <<>>
    THEN <<InitialState(conversation_id, source, now)>>
    ELSE <<Apply(current_state[1],
                 [messages |-> <<HumanMessage(<<message>>)>>,
                  source |-> source,
                  started_at |-> now])>>

\* process_message that puts the user's message into the initial state too
GraphInputGreeted(current_state, conversation_id, message, source, now) ==
    IF current_state = <<>>
    THEN <<Apply(InitialState(conversation_id, source, now),
                 [messages |-> <<HumanMessage(<<message>>)>>])>>
    ELSE <<Apply(current_state[1], [messages |-> <<HumanMessage(<<message>>)>>])>>

\* the input process_message hands to graph.ainvoke, applied to the thread
GraphInput(current_state, conversation_id, message, source, now) ==
    IF current_state = <<>>
    THEN <<InitialState(conversation_id, source, now)>>
    ELSE <<Apply(current_state[1], [messages |-> <<HumanMessage(<<message>>)>>])>>

\* process_message returning the first AIMessage and the stage it found
ProcessMessageResultStale(updated_state, conversation_id) ==
    LET as == {i \in 1..Len(updated_state.messages) : updated_state.messages[i].type = "ai"}
    IN  [status |-> "returned",
         response |-> IF as = {} THEN <<>>
                      ELSE <<updated_state.messages[CHOOSE i \in as : \A j \in as : i <= j].content>>,
         stage |-> updated_state.stage,
         conversation_id |-> conversation_id,
         calendly_shown |-> updated_state.calendly_shown]

\* content of the last AIMessage, <<>> standing for None
LastAI(messages) ==
    LET as == {i \in 1..Len(messages) : messages[i].type = "ai"}
    IN  IF as = {} THEN <<>>
        ELSE <<messages[CHOOSE i \in as : \A j \in as : j <= i].content>>

\* the dict process_message returns
ProcessMessageResult(updated_state, conversation_id) ==
    [status |-> "returned",
     response |-> LastAI(updated_state.messages),
     stage |-> updated_state.stage,
     conversation_id |-> conversation_id,
     calendly_shown |-> updated_state.calendly_shown]

\* edges of a graph that ends the run after each question of understand
NextNodeWaiting(node, state) ==
    CASE node = "understand" ->
            IF _should_continue_understanding(state) = "continue"
            THEN "end" ELSE "identify"
      [] node = "identify" -> "scope"
      [] node = "scope" -> "propose"
      [] node = "propose" -> "recommend"
      [] node = "recommend" -> "book"
      [] node = "book" -> "end"

\* the graph's edges out of a node, given the state after the node's update
NextNode(node, state) ==
    CASE node = "understand" ->
            IF _should_continue_understanding(state) = "continue"
            THEN "understand" ELSE "identify"
      [] node = "identify" -> "scope"
      [] node = "scope" -> "propose"
      [] node = "propose" -> "recommend"
      [] node = "recommend" -> "book"
      [] node = "book" -> "end"

\* no chat request in flight
NoChat ==
    [pc |-> "idle", conversation_id |-> <<>>, message |-> "", source |-> "",
     id |-> "", status |-> 0, failed |-> ""]

\* the tables after run_migrations; leads_unique tells whether the leads table
\* the service runs against has a unique index on conversation_id
EmptyDb ==
    [conversations |-> <<>>, messages |-> <<>>, leads |-> <<>>, leads_unique |-> FALSE]

\* the globals of src/api/main.py once startup_event has run: the counters at
\* zero, the agent made
NoMetrics ==
    [conversations_started |-> 0, conversations_completed |-> 0, demos_booked |-> 0,
     agent |-> TRUE]

\* a BackgroundWorker after __init__: running, handlers installed, run not yet
\* called; times are counted in half hours, clock is datetime.utcnow()
NoWorker ==
    [pc |-> "new", running |-> TRUE, signalled |-> FALSE, clock |-> 0, now |-> 0,
     last_metrics_run |-> 0, last_abandoned_check |-> 0, cleanups |-> 0,
     tried |-> {}, failed |-> "", owed |-> ""]

\* the two conversation ids of the specification of two conversations
TwoIds == {"c1", "c2"}

NoThreads == [c \in TwoIds |-> <<>>]

NoFrames == [c \in TwoIds |-> [pc |-> "idle", result |-> NoResult]]

\* an agent of its own for each conversation, nothing run on it yet
NoSolo ==
    [c \in TwoIds |->
        [calls |-> 0, steps |-> 0, values |-> <<>>, pc |-> "idle", result |-> NoResult]]

\* process_message from its entry to the start of the graph run
StartRun(conversation_id, message, source) ==
    /\ pc = "idle"
    /\ input' = [conversation_id |-> conversation_id, message |-> message,
                 source |-> source, current_state |-> values]
    /\ values' = GraphInput(values, conversation_id, message, source, turns)
    /\ pc' = "understand"
    /\ llm_calls' = 0
    /\ completion' = NoCall
    /\ path' = <<>>
    /\ turns' = turns + 1
    /\ UNCHANGED <<result, inPlaceKept, worker, fn, arg, out>>

ProcessMessage(conversation_id, message, source) ==
    /\ fn = "none"
    /\ turns < MaxTurns
    /\ StartRun(conversation_id, message, source)
    /\ UNCHANGED <<api, pair>>

\* a node ran with outcome r after making the given number of completion calls,
\* the last of which came back as llm: its update is applied and the edge
\* followed, or its error ends the call
NodeStep(node, r, calls, llm) ==
    /\ llm_calls' = llm_calls + calls
    /\ completion' = IF calls = 0 THEN completion ELSE llm
    /\ path' = Append(path, node)
    /\ IF r.raised
       THEN /\ values' = values
            /\ pc' = "idle"
            /\ result' = RaisedResult
       ELSE /\ values' = <<Apply(St, r.value)>>
            /\ pc' = NextNode(node, Apply(St, r.value))
            /\ result' = result
    /\ UNCHANGED <<input, turns, inPlaceKept, worker, fn, arg, out>>
    /\ UNCHANGED <<api, pair>>

\* the understand node, its extraction call answered by one of the outcomes
UnderstandWith(outcomes) ==
    /\ pc = "understand"
    /\ IF St.messages = <<>>
       THEN NodeStep("understand", _understand_business(St, NoCall, inPlaceKept), 0, NoCall)
       ELSE \E llm \in outcomes :
                NodeStep("understand", _understand_business(St, llm, inPlaceKept), 1, llm)

Understand == UnderstandWith(ExtractionOutcomes)

Identify ==
    /\ pc = "identify"
    /\ \E llm \in IdentifyOutcomes : NodeStep("identify", _identify_mvp(St, llm), 1, llm)

Scope ==
    /\ pc = "scope"
    /\ NodeStep("scope", _scope_mvp(St), 0, NoCall)

Propose ==
    /\ pc = "propose"
    /\ \E llm \in ProposalOutcomes : NodeStep("propose", _create_proposal(St, llm), 1, llm)

Recommend ==
    /\ pc = "recommend"
    /\ NodeStep("recommend", _recommend_tier(St), 0, NoCall)

Book ==
    /\ pc = "book"
    /\ NodeStep("book", _book_demo(St), 0, NoCall)

Return ==
    /\ pc = "end"
    /\ result' = ProcessMessageResult(St, input.conversation_id)
    /\ pc' = "idle"
    /\ UNCHANGED <<values, input, llm_calls, turns, inPlaceKept, worker, fn, arg, out,
                   completion, path>>
    /\ UNCHANGED <<api, pair>>

Init ==
    /\ values = <<>>
    /\ pc = "idle"
    /\ input = NoInput
    /\ result = NoResult
    /\ llm_calls = 0
    /\ turns = 0
    /\ inPlaceKept \in BOOLEAN
    /\ fn = "none"
    /\ arg = <<>>
    /\ out = <<>>
    /\ completion = NoCall
    /\ path = <<>>
    /\ chat = NoChat
    /\ db = EmptyDb
    /\ metrics = NoMetrics
    /\ threads = NoThreads
    /\ frames = NoFrames
    /\ solo = NoSolo
    /\ worker = NoWorker

Call ==
    \E c \in ConversationIds, m \in UserTexts, s \in Sources : ProcessMessage(c, m, s)

Next ==
    \/ Call
    \/ Understand
    \/ Identify
    \/ Scope
    \/ Propose
    \/ Recommend
    \/ Book
    \/ Return

Spec == Init /\ [][Next]_vars

----------------------------------------------------------------------------
(* The same calls when every step of a graph run is eventually taken: the *)
(* event loop resumes the run whenever the awaited completion call has     *)
(* come back, with a text or with an error.                                *)

MaxFairTurns == 2

CallFair ==
    /\ fn = "none"
    /\ turns < MaxFairTurns
    /\ \E c \in ConversationIds, m \in UserTexts, s \in Sources : StartRun(c, m, s)
    /\ UNCHANGED <<api, pair>>

\* a step of the graph run in flight, or its return
Run ==
    \/ Understand
    \/ Identify
    \/ Scope
    \/ Propose
    \/ Recommend
    \/ Book
    \/ Return

NextFair == CallFair \/ Run

SpecFair == Init /\ [][NextFair]_vars /\ WF_vars(Run)

----------------------------------------------------------------------------
(* The conversation of a 60-person logistics company: every extraction    *)
(* reports business_type, team_size = 60 and biggest_challenge.           *)

MaxScenarioTurns == 6

ScenarioMessage == "We run a 60-person logistics company"

ScenarioExtraction == {LlmText(<<"{biz_full}">>)}

CallScenario ==
    /\ fn = "none"
    /\ turns < MaxScenarioTurns
    /\ StartRun("c1", ScenarioMessage, "api")
    /\ UNCHANGED <<api, pair>>

UnderstandScenario == UnderstandWith(ScenarioExtraction)

NextScenario ==
    \/ CallScenario
    \/ UnderstandScenario
    \/ Identify
    \/ Scope
    \/ Propose
    \/ Recommend
    \/ Book
    \/ Return

SpecScenario == Init /\ [][NextScenario]_vars

----------------------------------------------------------------------------
(* Two conversations served by one agent: process_message calls on "c1"    *)
(* and "c2" whose graph steps interleave at the awaits.  The agent's only   *)
(* mutable state is its checkpointer, which keeps one state per thread_id. *)

MaxPairTurns == 2

\* a key of the checkpointer that is the same for every conversation
ThreadKeyShared(conversation_id) == "c1"

\* config["configurable"]["thread_id"] of a call
ThreadKey(conversation_id) == conversation_id

\* what a caller of each conversation sends
PairMessage(c) == IF c = "c1" THEN "scheduling is a mess" ELSE ""

PairSource(c) == IF c = "c1" THEN "widget" ELSE "api"

\* the completion outcomes a node can meet: NoCall when it asks for none
NodeOutcomes(node, state) ==
    CASE node = "understand" ->
            IF state.messages = <<>> THEN {NoCall}
            ELSE {LlmError, LlmText(<<"{biz_full}">>), LlmText(<<"txt">>)}
      [] node = "identify" -> {LlmText(<<"txt">>)}
      [] node = "propose" -> {LlmText(<<"txt">>)}
      [] OTHER -> {NoCall}

\* the node function the graph runs at a position
NodeResult(node, state, llm, kept) ==
    CASE node = "understand" -> _understand_business(state, llm, kept)
      [] node = "identify" -> _identify_mvp(state, llm)
      [] node = "scope" -> _scope_mvp(state)
      [] node = "propose" -> _create_proposal(state, llm)
      [] node = "recommend" -> _recommend_tier(state)
      [] node = "book" -> _book_demo(state)

\* process_message calls begun so far on both conversations
Now == solo["c1"].calls + solo["c2"].calls

\* the same three steps on the agent a conversation has to itself
SoloStart(own, c, message, source, now) ==
    [own EXCEPT !.calls = @ + 1,
                !.steps = @ + 1,
                !.values = GraphInput(own.values, c, message, source, now),
                !.pc = "understand"]

SoloStep(own, llm, kept) ==
    LET r == NodeResult(own.pc, own.values[1], llm, kept)
        after == Apply(own.values[1], r.value)
    IN  IF r.raised
        THEN [own EXCEPT !.steps = @ + 1, !.pc = "idle", !.result = RaisedResult]
        ELSE [own EXCEPT !.steps = @ + 1,
                         !.values = <<after>>,
                         !.pc = NextNode(own.pc, after)]

SoloReturn(own, c) ==
    [own EXCEPT !.steps = @ + 1,
                !.pc = "idle",
                !.result = ProcessMessageResult(own.values[1], c)]

StartPair(c) ==
    /\ frames[c].pc = "idle"
    /\ Now < MaxPairTurns
    /\ threads' = [threads EXCEPT ![ThreadKey(c)] =
                        GraphInput(threads[ThreadKey(c)], c, PairMessage(c),
                                   PairSource(c), Now)]
    /\ frames' = [frames EXCEPT ![c].pc = "understand"]
    /\ solo' = [solo EXCEPT ![c] = SoloStart(@, c, PairMessage(c), PairSource(c), Now)]
    /\ UNCHANGED <<single, inPlaceKept, worker, api>>

StepPair(c) ==
    /\ frames[c].pc \in {"understand", "identify", "scope", "propose", "recommend", "book"}
    /\ LET node == frames[c].pc
           state == threads[ThreadKey(c)][1]
       IN  \E llm \in NodeOutcomes(node, state) :
               LET r == NodeResult(node, state, llm, inPlaceKept)
               IN  /\ IF r.raised
                      THEN /\ threads' = threads
                           /\ frames' = [frames EXCEPT ![c] =
                                            [pc |-> "idle", result |-> RaisedResult]]
                      ELSE /\ threads' = [threads EXCEPT ![ThreadKey(c)] =
                                              <<Apply(state, r.value)>>]
                           /\ frames' = [frames EXCEPT ![c].pc =
                                            NextNode(node, Apply(state, r.value))]
                   /\ solo' = [solo EXCEPT ![c] = SoloStep(@, llm, inPlaceKept)]
    /\ UNCHANGED <<single, inPlaceKept, worker, api>>

ReturnPair(c) ==
    /\ frames[c].pc = "end"
    /\ frames' = [frames EXCEPT ![c] =
                    [pc |-> "idle",
                     result |-> ProcessMessageResult(threads[ThreadKey(c)][1], c)]]
    /\ solo' = [solo EXCEPT ![c] = SoloReturn(@, c)]
    /\ UNCHANGED <<single, inPlaceKept, worker, api, threads>>

StartEither == \E c \in TwoIds : StartPair(c)

\* a step of the run of one conversation, or its return
RunPair(c) == StepPair(c) \/ ReturnPair(c)

NextPair == StartEither \/ RunPair("c1") \/ RunPair("c2")

SpecPair ==
    Init /\ [][NextPair]_vars /\ WF_vars(RunPair("c1")) /\ WF_vars(RunPair("c2"))

----------------------------------------------------------------------------
(* The chat endpoint of src/api/main.py over the tables of                 *)
(* src/api/database.py, for one conversation: the id uuid4 gives a request *)
(* without conversation_id is "c1", the id later requests carry.  Each     *)
(* await of the handler is one action.  The leads table is created only if *)
(* it does not exist, so the table the service runs against may or may not *)
(* have the unique index that ON CONFLICT (conversation_id) needs.  Every   *)
(* call of the store may also fail because the store cannot be reached;    *)
(* the handler has no try around any of them.  SpecChat is the service     *)
(* with the store reachable, SpecStore the service with a store that may   *)
(* fail at any call.                                                       *)

MaxChatTurns == 2

\* dict.get(key, default) on a record
DictGet(d, key, default) == IF key \in DOMAIN d THEN d[key] ELSE default

\* the rows of a table that belong to a conversation
RowsOf(table, conversation_id) ==
    {i \in 1..Len(table) : table[i].conversation_id = conversation_id}

\* the handler gives up with a status code
ChatEnds(status) == [chat EXCEPT !.pc = "idle", !.status = status]

\* an error of the store operation op leaves the handler
StoreFails(op) == [chat EXCEPT !.pc = "idle", !.status = 500, !.failed = op]

\* chat up to its first await: the conversation id, and for a request that
\* carries none the started counter and create_conversation
ChatReceive(conversation_id, message, source, up) ==
    LET request == [pc |-> "process", conversation_id |-> conversation_id,
                    message |-> message, source |-> source, id |-> "c1",
                    status |-> 0, failed |-> ""]
    IN
    /\ fn = "none"
    /\ chat.pc = "idle"
    /\ pc = "idle"
    /\ metrics.agent
    /\ turns < MaxChatTurns
    /\ conversation_id = <<>> =>
            /\ values = <<>>
            /\ db.conversations = <<>>
            /\ metrics.conversations_started < MaxChatTurns
    /\ IF conversation_id = <<>>
       THEN /\ metrics' = [metrics EXCEPT !.conversations_started = @ + 1]
            /\ IF up
               THEN /\ chat' = request
                    /\ db' = [db EXCEPT !.conversations =
                                Append(@, [conversation_id |-> "c1", source |-> source,
                                           state |-> <<>>])]
               ELSE /\ chat' = [request EXCEPT !.pc = "idle", !.status = 500,
                                               !.failed = "create_conversation"]
                    /\ db' = db
       ELSE /\ chat' = request
            /\ UNCHANGED <<metrics, db>>
    /\ UNCHANGED <<single, inPlaceKept, worker, pair>>

\* agent.process_message is entered
ChatProcess ==
    /\ chat.pc = "process"
    /\ StartRun(chat.id, chat.message, chat.source)
    /\ chat' = [chat EXCEPT !.pc = "await"]
    /\ UNCHANGED <<db, metrics, pair>>

\* process_message raised: the request fails
ChatFail ==
    /\ chat.pc = "await"
    /\ pc = "idle"
    /\ result.status = "raised"
    /\ chat' = ChatEnds(500)
    /\ UNCHANGED <<single, inPlaceKept, worker, db, metrics, pair>>

\* db.add_message in a handler that catches the store's error and goes on
AddMessageSwallowed(role, content, then, up) ==
    /\ IF ~up \/ RowsOf(db.conversations, chat.id) = {}
       THEN /\ chat' = [chat EXCEPT !.pc = then, !.failed = "add_message"]
            /\ db' = db
       ELSE /\ chat' = [chat EXCEPT !.pc = then]
            /\ db' = [db EXCEPT !.messages =
                        Append(@, [conversation_id |-> chat.id, role |-> role,
                                   content |-> content])]
    /\ UNCHANGED <<single, inPlaceKept, worker, metrics, pair>>

\* db.add_message: the insert needs the conversation's row (foreign key)
AddMessage(role, content, then, up) ==
    /\ IF ~up \/ RowsOf(db.conversations, chat.id) = {}
       THEN /\ chat' = StoreFails("add_message")
            /\ db' = db
       ELSE /\ chat' = [chat EXCEPT !.pc = then]
            /\ db' = [db EXCEPT !.messages =
                        Append(@, [conversation_id |-> chat.id, role |-> role,
                                   content |-> content])]
    /\ UNCHANGED <<single, inPlaceKept, worker, metrics, pair>>

StoreHumanWhen(ups) ==
    /\ chat.pc = "await"
    /\ pc = "idle"
    /\ result.status = "returned"
    /\ \E up \in ups : AddMessage("human", <<chat.message>>, "store_ai", up)

ChatStoreHuman == StoreHumanWhen({TRUE})

StoreAIWhen(ups) ==
    /\ chat.pc = "store_ai"
    /\ \E up \in ups : AddMessage("ai", result.response[1], "update", up)

ChatStoreAI == StoreAIWhen({TRUE})

\* db.update_conversation_state(state=result)
UpdateConversationState(up) ==
    /\ IF up
       THEN /\ db' = [db EXCEPT !.conversations =
                        [i \in 1..Len(@) |->
                            IF @[i].conversation_id = chat.id
                            THEN [@[i] EXCEPT !.state = <<result>>] ELSE @[i]]]
            /\ chat' = [chat EXCEPT !.pc = "track"]
       ELSE /\ db' = db
            /\ chat' = StoreFails("update_conversation_state")
    /\ UNCHANGED <<single, inPlaceKept, worker, metrics, pair>>

UpdateWhen(ups) ==
    /\ chat.pc = "update"
    /\ \E up \in ups : UpdateConversationState(up)

ChatUpdate == UpdateWhen({TRUE})

\* db.create_lead: the tables after it, or its error
create_lead(d, conversation_id, mvp_proposal, partnership_tier) ==
    LET convs == RowsOf(d.conversations, conversation_id)
    IN  IF convs = {} THEN Raised
        ELSE
        LET conv == d.conversations[CHOOSE i \in convs : TRUE]
            state == IF conv.state = <<>> THEN [status |-> "none"] ELSE conv.state[1]
            business_info == DictGet(state, "business_info", EmptyDict)
            got == Get(business_info, "business_type", JStr("Unknown"))
            row == [conversation_id |-> conversation_id,
                    business_name |-> IF got.t = "str" THEN got.s ELSE "",
                    proposed_mvp |-> mvp_proposal,
                    partnership_tier |-> partnership_tier]
            old == RowsOf(d.leads, conversation_id)
        IN  IF ~d.leads_unique THEN Raised
            ELSE IF old = {} THEN Returned([d EXCEPT !.leads = Append(@, row)])
            ELSE Returned([d EXCEPT !.leads =
                    [i \in 1..Len(@) |->
                        IF i \in old
                        THEN [@[i] EXCEPT !.proposed_mvp = mvp_proposal,
                                          !.partnership_tier = partnership_tier]
                        ELSE @[i]]])

\* the counters, create_lead when the booking prompt was shown, the response
Track(up) ==
    /\ IF DictGet(result, "stage", "") = "propose"
       THEN /\ metrics' = [metrics EXCEPT !.conversations_completed = @ + 1]
            /\ db' = db
            /\ chat' = ChatEnds(200)
       ELSE IF DictGet(result, "calendly_shown", FALSE)
       THEN LET r == create_lead(db, chat.id, DictGet(result, "mvp_proposal", <<>>),
                                 DictGet(result, "partnership_tier", <<>>))
            IN  /\ metrics' = [metrics EXCEPT !.demos_booked = @ + 1]
                /\ db' = IF ~up \/ r.raised THEN db ELSE r.value
                /\ chat' = IF ~up \/ r.raised THEN StoreFails("create_lead")
                           ELSE ChatEnds(200)
       ELSE /\ UNCHANGED <<metrics, db>>
            /\ chat' = ChatEnds(200)
    /\ UNCHANGED <<single, inPlaceKept, worker, pair>>

TrackWhen(ups) ==
    /\ chat.pc = "track"
    /\ \E up \in ups : Track(up)

ChatTrack == TrackWhen({TRUE})

ChatRequest ==
    \E c \in {<<>>, <<"c1">>}, m \in UserTexts, s \in Sources :
        ChatReceive(c, m, s, TRUE)

InitChat ==
    /\ values = <<>>
    /\ pc = "idle"
    /\ input = NoInput
    /\ result = NoResult
    /\ llm_calls = 0
    /\ turns = 0
    /\ inPlaceKept \in BOOLEAN
    /\ fn = "none"
    /\ arg = <<>>
    /\ out = <<>>
    /\ completion = NoCall
    /\ path = <<>>
    /\ chat = NoChat
    /\ db \in {[EmptyDb EXCEPT !.leads_unique = u] : u \in BOOLEAN}
    /\ metrics = NoMetrics
    /\ threads = NoThreads
    /\ frames = NoFrames
    /\ solo = NoSolo
    /\ worker = NoWorker

NextChat ==
    \/ ChatRequest
    \/ ChatProcess
    \/ Run
    \/ ChatFail
    \/ ChatStoreHuman
    \/ ChatStoreAI
    \/ ChatUpdate
    \/ ChatTrack

SpecChat == InitChat /\ [][NextChat]_vars

\* the service with a store that may fail at any call, for one client
MaxStoreTurns == 2

StoreRequest ==
    /\ turns < MaxStoreTurns
    /\ \E c \in {<<>>, <<"c1">>}, up \in BOOLEAN :
            ChatReceive(c, "scheduling is a mess", "widget", up)

NextStore ==
    \/ StoreRequest
    \/ ChatProcess
    \/ Run
    \/ ChatFail
    \/ StoreHumanWhen(BOOLEAN)
    \/ StoreAIWhen(BOOLEAN)
    \/ UpdateWhen(BOOLEAN)
    \/ TrackWhen(BOOLEAN)

SpecStore == InitChat /\ [][NextStore]_vars

----------------------------------------------------------------------------
(* The helpers of src/agent/tools.py applied to bounded inputs *)

InitTools ==
    /\ values = <<>>
    /\ pc = "idle"
    /\ input = NoInput
    /\ result = NoResult
    /\ llm_calls = 0
    /\ turns = 0
    /\ inPlaceKept = FALSE
    /\ out = <<>>
    /\ completion = NoCall
    /\ path = <<>>
    /\ chat = NoChat
    /\ db = EmptyDb
    /\ metrics = NoMetrics
    /\ threads = NoThreads
    /\ frames = NoFrames
    /\ solo = NoSolo
    /\ worker = NoWorker
    /\ \/ fn = "tier" /\ arg \in [business_info : TierInfos, mvp_proposal : TierProposals]
       \/ fn = "extract" /\ arg \in LlmOutcomes
       \/ fn = "proposal" /\ arg \in LlmOutcomes
       \/ fn = "propose_step" /\ arg \in LlmOutcomes
       \/ fn = "decide" /\ arg \in DecisionStates

ToolDone(v) ==
    /\ out = <<>>
    /\ out' = <<v>>
    /\ UNCHANGED <<values, pc, input, result, llm_calls, turns, inPlaceKept, worker, fn, arg,
                   completion, path, chat, db, metrics, threads, frames, solo>>

TierCall ==
    /\ fn = "tier"
    /\ ToolDone(determine_partnership_tier(arg.business_info, arg.mvp_proposal))

ExtractCall ==
    /\ fn = "extract"
    /\ ToolDone(extract_business_info(arg, <<>>))

ProposalCall ==
    /\ fn = "proposal"
    /\ ToolDone(generate_mvp_proposal(arg, <<>>, EmptyDict, <<"">>))

\* a thread that has reached the propose node
ProposeState ==
    Apply(InitialState("c1", "api", 0),
          [messages |-> <<HumanMessage(<<"scheduling is a mess">>)>>,
           identified_task |-> <<<<"scheduling is a mess">>>>,
           questions_asked |-> 3,
           stage |-> "scope"])

ProposeStepCall ==
    /\ fn = "propose_step"
    /\ ToolDone(_create_proposal(ProposeState, arg))

DecideCall ==
    /\ fn = "decide"
    /\ ToolDone(_should_continue_understanding(arg))

NextTools == TierCall \/ ExtractCall \/ ProposalCall \/ ProposeStepCall \/ DecideCall

SpecTools == InitTools /\ [][NextTools]_vars

----------------------------------------------------------------------------
(* Properties *)

\* position of a stage in the order start < understand < ... < book/complete
StageRank(stage) ==
    IF stage = "book" THEN Len(Stages)
    ELSE CHOOSE i \in 1..Len(Stages) : Stages[i] = stage

Started == values # <<>>

\* the state the call in flight (or the last call) found, <<>> if none
Before == input.current_state

\* a process_message call has returned and no other has begun
JustReturned == pc = "idle" /\ result.status = "returned"

\* the call that just returned found the conversation at stage complete
ReturnedOnComplete ==
    JustReturned /\ Before # <<>> /\ Before[1].stage = "complete"

\* number of canned understand questions in a transcript
UnderstandQuestionsIn(messages) ==
    Cardinality({i \in 1..Len(messages) :
        /\ messages[i].type = "ai"
        /\ \E q \in 1..Len(QuestionsUnderstand) :
              messages[i].content = <<QuestionsUnderstand[q]>>})

BookMessageIn(messages) ==
    \E i \in 1..Len(messages) : messages[i] = AIMessage(CalendlyPrompt)

\* C1: every write to stage moves it to an equal or later stage of the order
\* start < understand < identify < scope < propose < recommend < book/complete,
\* also on turns sent after the conversation reached complete.
C1_StageNeverRegresses ==
    [][(Started /\ values' # <<>>)
          => StageRank(values'[1].stage) >= StageRank(St.stage)]_vars

\* the exit decision with 3 questions asked, over sample contents of business_info
NextAtThreeQuestions ==
    \A business_info \in TierInfos \cup {EmptyDict, BusinessInfo,
                                         BusinessInfoOf(BizFull), BusinessInfoOf(BizPartial)} :
        _should_continue_understanding(
            [questions_asked |-> 3, business_info |-> business_info]) = "next"

\* C2: under serial process_message calls at most 3 discovery questions are
\* asked (questions_asked <= 3, at most 3 canned understand questions in the
\* transcript), and an understand step that leaves 3 questions asked is followed
\* by identify whatever business_info holds.
C2_AtMostThreeQuestions ==
    /\ [](Started => /\ St.questions_asked <= 3
                     /\ UnderstandQuestionsIn(St.messages) <= 3)
    /\ [](NextAtThreeQuestions)
    /\ [][(pc = "understand" /\ pc' # "idle" /\ values'[1].questions_asked >= 3)
             => pc' = "identify"]_vars

\* C2 witness: the third question was asked with business_type still unknown
\* and the graph moved on to identify
C2_Witness ==
    /\ Started
    /\ pc = "identify"
    /\ St.questions_asked = 3
    /\ UnderstandQuestionsIn(St.messages) = 3
    /\ ~Truthy(Get(St.business_info, "business_type", JNull))

\* C3: calendly_shown is false as long as the book step has not run, becomes
\* true when the book step runs, and never reverts under later calls.
C3_CalendlyShown ==
    /\ [](Started => (St.calendly_shown <=> BookMessageIn(St.messages)))
    /\ [](Started /\ turns <= 1 /\ StageRank(St.stage) < StageRank("complete")
             => ~St.calendly_shown)
    /\ [][pc = "book" => values'[1].calendly_shown /\ values'[1].stage = "complete"]_vars
    /\ [][(Started /\ St.calendly_shown)
             => (values' # <<>> /\ values'[1].calendly_shown)]_vars

\* C3 witness: a later call is in flight on a conversation whose book step ran,
\* its stage written back to an earlier one, and calendly_shown is still true
C3_Witness ==
    /\ Started
    /\ turns >= 2
    /\ pc = "scope"
    /\ St.calendly_shown

\* the tier the decision table gives to a team size and a number of time wasters
TierTable(team_size, time_wasters) ==
    IF team_size > 50 THEN "enterprise"
    ELSE IF team_size > 15 \/ time_wasters > 3 THEN "growth"
    ELSE "starter"

\* C4: determine_partnership_tier returns enterprise when team_size > 50, else
\* growth when team_size > 15 or more than 3 time_wasters, else starter; a
\* missing or null team_size counts as 0; 50 gives growth, 15 with 3 time
\* wasters gives starter.
C4_TierPolicy ==
    (fn = "tier" /\ out # <<>>) =>
        LET ts == arg.business_info["team_size"]
            tw == arg.business_info["time_wasters"]
            size == IF ts.t = "int" THEN ts.n ELSE 0
            count == IF tw.t = "list" THEN Len(tw.l) ELSE 0
        IN  /\ out[1] = TierTable(size, count)
            /\ (size = 50 => out[1] = "growth")
            /\ (size = 15 /\ count = 3 => out[1] = "starter")
            /\ (size = 60 => out[1] = "enterprise")
            /\ (size = 5 /\ count = 4 => out[1] = "growth")

\* C4 witness: team_size 50 with no time wasters was given growth
C4_Witness ==
    /\ fn = "tier"
    /\ out = <<"growth">>
    /\ arg.business_info["team_size"] = JInt(50)
    /\ arg.business_info["time_wasters"] = JList(<<>>)

\* the text json.loads is given is not one JSON document
NotJson(text) ==
    LET payload == Strip(Unfence(text))
    IN  ~(Len(payload) = 1 /\ payload[1] \in DocTokens)

\* the one document json.loads is given, "" if it is not one document
Document(text) == IF NotJson(text) THEN "" ELSE Strip(Unfence(text))[1]

\* C5: when the completion text is not parseable as JSON or fails field
\* validation, extract_business_info returns a BusinessInfo with every field
\* at its default and raises no error.
C5_ExtractionDefaultsOnBadText ==
    (/\ fn = "extract"
     /\ out # <<>>
     /\ arg.ok
     /\ \/ NotJson(arg.content)
        \/ Document(arg.content) \in {"[1,2]", "{biz_badtype}"})
    => /\ ~out[1].raised
       /\ out[1].value["business_type"] = JNull
       /\ out[1].value["team_size"] = JNull
       /\ out[1].value["biggest_challenge"] = JNull
       /\ out[1].value["time_wasters"] = JList(<<>>)
       /\ out[1].value["current_tools"] = JList(<<>>)

\* C5 witness: a fenced document whose team_size is not a number gave the
\* default record
C5_Witness ==
    /\ fn = "extract"
    /\ arg = LlmText(FenceJson \o <<" ", "{biz_badtype}", " ">> \o Fence)
    /\ out = <<Returned(BusinessInfo)>>

\* C6: when the completion text is not parseable as JSON or lacks a required
\* field, generate_mvp_proposal returns exactly the fixed fallback proposal and
\* raises no error, and the propose step appends a proposal message and sets
\* mvp_proposal.
C6_ProposalFallback ==
    LET bad == /\ out # <<>>
               /\ arg.ok
               /\ \/ NotJson(arg.content)
                  \/ Document(arg.content) \in
                        {"[1,2]", "{prop_missing}", "{biz_full}", "{biz_partial}",
                         "{biz_badtype}"}
        fallback(p) ==
            /\ p["agent_name"] = JStr("Process Automation Assistant")
            /\ p["description"] =
                  JStr("Automates your most time-consuming task with AI-powered intelligence.")
            /\ p["time_saved"] = JStr("10+ hours/week")
            /\ p["integrations"] = JList(<<"Email", "Spreadsheets">>)
            /\ p["success_metric"] = JStr("90% reduction in manual processing time")
            /\ p["delivery_time"] = JStr("2-3 weeks")
    IN  /\ (fn = "proposal" /\ bad) => (~out[1].raised /\ fallback(out[1].value))
        /\ (fn = "propose_step" /\ bad) =>
              /\ ~out[1].raised
              /\ out[1].value.stage = "propose"
              /\ Len(out[1].value.mvp_proposal) = 1
              /\ fallback(out[1].value.mvp_proposal[1])
              /\ Len(out[1].value.messages) = 1
              /\ out[1].value.messages[1].type = "ai"
              /\ out[1].value.messages[1].content =
                    FormattedProposal(out[1].value.mvp_proposal[1])

\* C6 witness: the propose step ran on a completion that is prose and produced
\* the fallback proposal
C6_Witness ==
    /\ fn = "propose_step"
    /\ arg = LlmText(<<"txt">>)
    /\ out # <<>>
    /\ out[1].value.mvp_proposal = <<FallbackProposal>>

\* C7: no failure of a Completion Service call is propagated to the caller of
\* process_message: every call returns normally.
C7_NoCompletionFailureEscapes == result.status # "raised"

\* C8: a process_message call on a conversation whose stage is already
\* complete returns stage = complete and calendly_shown = true, and so does a
\* second such call.
C8_TerminalTurnResult ==
    ReturnedOnComplete => (result.stage = "complete" /\ result.calendly_shown)

\* C8 witness: the third call returned, the second call on a completed
\* conversation
C8_Witness ==
    /\ ReturnedOnComplete
    /\ turns = 3
    /\ result.stage = "complete"
    /\ result.calendly_shown

\* C9: a process_message call on a conversation whose stage is already
\* complete makes no Completion Service call, appends no agent message, and
\* leaves questions_asked, identified_task, mvp_proposal and partnership_tier
\* unchanged.
C9_TerminalTurnRunsNoStage ==
    ReturnedOnComplete =>
        /\ llm_calls = 0
        /\ St.messages = Before[1].messages \o <<HumanMessage(<<input.message>>)>>
        /\ St.questions_asked = Before[1].questions_asked
        /\ St.identified_task = Before[1].identified_task
        /\ St.mvp_proposal = Before[1].mvp_proposal
        /\ St.partnership_tier = Before[1].partnership_tier

\* C10: one process_message call executes one stage step: the stage after the
\* call is the stage before it (only for understand) or its immediate successor.
C10_OneStagePerCall ==
    JustReturned =>
        LET before == IF Before = <<>> THEN "start" ELSE Before[1].stage
        IN  \/ before = "complete"
            \/ St.stage = before /\ before = "understand"
            \/ StageRank(St.stage) = StageRank(before) + 1


\* C11: in the scenario of the 60-person logistics company, a turn that
\* returns before turn 3 does not leave the conversation at stage complete,
\* the turns from turn 3 on leave it at identify or later, and the turns from
\* turn 6 on leave it at complete with tier enterprise and the booking
\* prompt shown
C11_ScenarioSchedule ==
    JustReturned =>
        /\ turns < 3 => St.stage # "complete"
        /\ turns >= 3 => StageRank(St.stage) >= StageRank("identify")
        /\ turns >= 6 =>
              /\ St.stage = "complete"
              /\ St.partnership_tier = <<"enterprise">>
              /\ St.calendly_shown

\* C12: a process_message call makes at most 2 Completion Service calls
C12_AtMostTwoCompletionCalls == llm_calls <= 2


\* a business_info field that holds a non-empty string
Populated(business_info, key) ==
    business_info[key].t = "str" /\ business_info[key].s # ""

\* C13: for every questions_asked and business_info the understand exit
\* decision is next exactly when questions_asked >= 2 with business_type and
\* biggest_challenge both populated, or questions_asked >= 3; otherwise it is
\* continue
C13_ExitDecision ==
    (fn = "decide" /\ out # <<>>) =>
        LET enough ==
                \/ /\ arg.questions_asked >= 2
                   /\ Populated(arg.business_info, "business_type")
                   /\ Populated(arg.business_info, "biggest_challenge")
                \/ arg.questions_asked >= 3
        IN  out[1] = IF enough THEN "next" ELSE "continue"

\* the decision was taken at two questions with both fields populated
C13_Witness ==
    /\ fn = "decide"
    /\ out = <<"next">>
    /\ arg.questions_asked = 2
    /\ Populated(arg.business_info, "business_type")
    /\ Populated(arg.business_info, "biggest_challenge")


\* the understand node of the call in flight runs with a non-empty transcript
ExtractionStep ==
    /\ pc = "understand"
    /\ St.messages # <<>>
    /\ path' = Append(path, "understand")

\* the record the extraction call of this step returned
Extracted == extract_business_info(completion', St.messages).value

\* C14: after an understand step that ran with a non-empty transcript the
\* stored business_info is the whole record its extraction call returned,
\* the exit decision of that step is taken on it, and the recommend step
\* computes the tier from the stored business_info
C14_ExtractionStored ==
    [][/\ (ExtractionStep /\ completion'.ok) =>
            /\ values'[1].business_info = Extracted
            /\ pc' = IF _should_continue_understanding(
                            [values'[1] EXCEPT !.business_info = Extracted]) = "continue"
                     THEN "understand" ELSE "identify"
       /\ (pc = "recommend" /\ pc' = "book") =>
            values'[1].partnership_tier =
                <<determine_partnership_tier(St.business_info, St.mvp_proposal[1])>>]_vars


\* a completion that came back but holds no valid business record
BadExtraction(llm) ==
    /\ llm.ok
    /\ \/ NotJson(llm.content)
       \/ Document(llm.content) \in {"[1,2]", "{biz_badtype}"}

\* a business_info without data: {} or the record of defaults
NoData(business_info) == \A k \in BusinessKeys : ~Truthy(business_info[k])

FoundNoState == input.conversation_id # "" /\ Before = <<>>

\* C16: a process_message call for a conversation_id without stored state
\* creates fresh state (stage start, questions_asked 0, business_info empty,
\* calendly_shown false, the source given) and ends by returning a response,
\* not by raising
C16_UnknownIdStartsFresh ==
    /\ [][(pc = "idle" /\ pc' = "understand" /\ values = <<>>) =>
            /\ values'[1].stage = "start"
            /\ values'[1].questions_asked = 0
            /\ values'[1].business_info = EmptyDict
            /\ values'[1].calendly_shown = FALSE
            /\ values'[1].source = input'.source
            /\ values'[1].conversation_id = input'.conversation_id]_vars
    /\ []((FoundNoState /\ pc = "idle") =>
            (result.status = "returned" /\ result.response # <<>>))

\* C17: for every process_message call that returns, the returned
\* conversation_id is the one passed in, the returned stage and
\* calendly_shown are those of the stored state after the turn, and the
\* returned response is the content of the last ai message of the stored
\* transcript
C17_ResultMirrorsState ==
    JustReturned =>
        /\ result.conversation_id = input.conversation_id
        /\ result.stage = St.stage
        /\ result.calendly_shown = St.calendly_shown
        /\ \E i \in 1..Len(St.messages) :
              /\ St.messages[i].type = "ai"
              /\ \A j \in (i + 1)..Len(St.messages) : St.messages[j].type # "ai"
              /\ result.response = <<St.messages[i].content>>

\* a later turn returned: the transcript holds human and ai messages
C17_Witness ==
    /\ JustReturned
    /\ turns = 2
    /\ \E i \in 1..Len(St.messages) : St.messages[i].type = "human"
    /\ result.stage = "complete"


\* graph nodes from a position to the end of the run, the position included
NodesLeft(p) ==
    CASE p = "understand" -> 6
      [] p = "identify" -> 5
      [] p = "scope" -> 4
      [] p = "propose" -> 3
      [] p = "recommend" -> 2
      [] p = "book" -> 1
      [] OTHER -> 0

\* a bound on the steps the call in flight still takes: the questions left
\* to ask at understand, the nodes left to run, and the return
StepsLeft ==
    IF pc = "idle" THEN 0
    ELSE 1 + 4 * NodesLeft(pc)
           + (IF pc = "understand" THEN 3 - St.questions_asked ELSE 0)

\* how often a node occurs in a path
Occurrences(node, p) == Cardinality({i \in 1..Len(p) : p[i] = node})

\* C18: every process_message call terminates when its completion calls
\* come back: a call in flight eventually ends, every step brings the run
\* closer to its end by a measure that cannot fall below 0, and the
\* understand node runs at most 3 times in a row
C18_CallTerminates ==
    /\ (pc # "idle") ~> (pc = "idle")
    /\ [][pc # "idle" => StepsLeft' < StepsLeft]_vars
    /\ [](StepsLeft >= 0)
    /\ [](Occurrences("understand", path) <= 3)

\* a call ran understand three times and went on to return
C18_Witness ==
    /\ JustReturned
    /\ Occurrences("understand", path) = 3
    /\ Len(path) = 8


\* a bound on the steps the call in flight on a conversation still takes
PairStepsLeft(c) ==
    IF frames[c].pc = "idle" THEN 0
    ELSE 1 + 4 * NodesLeft(frames[c].pc)
           + (IF frames[c].pc = "understand" /\ threads[c] # <<>>
              THEN 3 - threads[c][1].questions_asked ELSE 0)

\* C19: for any interleaving of process_message calls on two conversation
\* ids, a step of one conversation's turn leaves the other conversation's
\* state unchanged; every turn begun comes to its end: wherever the other
\* conversation stands its next step can be taken, and each of its steps
\* brings it closer to its end; and each conversation is in the state, and
\* each call ends the way, its calls produce on an agent that serves no
\* other conversation
C19_ConversationsIndependent ==
    /\ [][\A c \in TwoIds :
            solo'[c].steps = solo[c].steps =>
                (threads'[c] = threads[c] /\ frames'[c] = frames[c])]_vars
    /\ [](\A c \in TwoIds : frames[c].pc # "idle" => ENABLED <<RunPair(c)>>_vars)
    /\ [][\A c \in TwoIds :
            (frames[c].pc # "idle" /\ solo'[c].steps # solo[c].steps) =>
                PairStepsLeft(c)' < PairStepsLeft(c)]_vars
    /\ [](\A c \in TwoIds : PairStepsLeft(c) >= 0)
    /\ [](\A c \in TwoIds :
            /\ threads[c] = solo[c].values
            /\ frames[c].pc = solo[c].pc
            /\ frames[c].result = solo[c].result)

\* both conversations have a call in flight, each past its first step
C19_Witness ==
    /\ frames["c1"].pc = "scope"
    /\ frames["c2"].pc = "propose"
    /\ threads["c1"] # threads["c2"]


\* a chat request was answered 200 and its result had calendly_shown
AnsweredWithBooking ==
    /\ chat.pc = "idle"
    /\ chat.status = 200
    /\ result.status = "returned"
    /\ result.calendly_shown

\* C20: when a chat turn's result has calendly_shown = true, the leads
\* record of the conversation carries the conversation's mvp_proposal, its
\* partnership_tier and, as business name, its business_info.business_type
\* ("Unknown" only when the conversation holds none)
C20_LeadCarriesConversation ==
    AnsweredWithBooking =>
        \E i \in RowsOf(db.leads, chat.id) :
            /\ db.leads[i].proposed_mvp = St.mvp_proposal
            /\ db.leads[i].partnership_tier = St.partnership_tier
            /\ db.leads[i].business_name =
                    IF Populated(St.business_info, "business_type")
                    THEN St.business_info["business_type"].s ELSE "Unknown"

\* C21: identified_task is written at most once: once the scope step has set
\* it, no later stage step and no later process_message call changes it
C21_IdentifiedTaskSetOnce ==
    [][(values # <<>> /\ St.identified_task # <<>>) =>
            values'[1].identified_task = St.identified_task]_vars

\* the names of the partnership tiers
TierNames == {"starter", "growth", "enterprise"}

ScopeStep == pc = "scope" /\ path' = Append(path, "scope")

\* positions of the human messages of a transcript
Humans(messages) == {i \in 1..Len(messages) : messages[i].type = "human"}

\* the most recent human message of a transcript that has one
MostRecentHuman(messages) ==
    messages[CHOOSE i \in Humans(messages) : \A j \in Humans(messages) : j <= i]

Placeholder == <<"the process you mentioned">>

\* C23 as stated: the scope step never fails and sets identified_task to the
\* content of the most recent human message whenever the transcript has a
\* human message, also one whose text is empty, and to the placeholder phrase
\* only when it has none
C23_ScopeTakesLastHuman ==
    [][ScopeStep =>
            /\ pc' # "idle"
            /\ values'[1].identified_task =
                    IF Humans(St.messages) # {}
                    THEN <<MostRecentHuman(St.messages).content>>
                    ELSE <<Placeholder>>]_vars

\* C23 amended: the scope step never fails and sets identified_task to the
\* content of the most recent human message when that message has non-empty
\* text, and to the placeholder phrase when the transcript has no human
\* message or the most recent one has empty text
C23_ScopeTakesLastNonEmptyHuman ==
    [][ScopeStep =>
            /\ pc' # "idle"
            /\ values'[1].identified_task =
                    IF /\ Humans(St.messages) # {}
                       /\ MostRecentHuman(St.messages).content # <<"">>
                    THEN <<MostRecentHuman(St.messages).content>>
                    ELSE <<Placeholder>>]_vars

\* the scope step has just run on a transcript whose most recent human
\* message is empty, and the task is the placeholder
C23_Witness ==
    /\ pc = "propose"
    /\ Humans(St.messages) # {}
    /\ MostRecentHuman(St.messages).content = <<"">>
    /\ St.identified_task = <<Placeholder>>

\* p is a prefix of q
IsPrefix(p, q) == Len(p) <= Len(q) /\ SubSeq(q, 1, Len(p)) = p

\* C24: the transcript is append-only: across every process_message call and
\* every stage step the messages before are a prefix of the messages after,
\* and every entry has role human or ai
C24_TranscriptAppendOnly ==
    /\ [][values # <<>> => IsPrefix(St.messages, values'[1].messages)]_vars
    /\ [](values # <<>> =>
            \A i \in 1..Len(St.messages) : St.messages[i].type \in {"human", "ai"})

\* a later call has appended its human message and stage steps their ai
\* messages after it
C24_Witness ==
    /\ turns = 2
    /\ pc = "identify"
    /\ \E i \in 2..(Len(St.messages) - 1) :
          /\ St.messages[i].type = "human"
          /\ St.messages[i - 1].type = "ai"
          /\ St.messages[i + 1].type = "ai"

\* C25: source, conversation_id and started_at keep the values given at
\* creation: no stage step and no later process_message call, whatever its
\* source argument, changes any of the three
C25_CreationFieldsKept ==
    [][values # <<>> =>
            /\ values'[1].source = St.source
            /\ values'[1].conversation_id = St.conversation_id
            /\ values'[1].started_at = St.started_at]_vars

\* a later call came with another source than the conversation was created
\* with, at a later time
C25_Witness ==
    /\ turns = 2
    /\ pc = "understand"
    /\ input.source # St.source
    /\ St.started_at = 0

\* the document tokens that are JSON objects
ObjectTokens == {d \in DocTokens : DocValue(d).isobj}

\* the completions that hold the document J in a fence, marked json or plain,
\* with optional prose and whitespace around it
Wrappings(J) ==
    {pre \o open \o pad \o <<J>> \o pad \o Fence \o post :
        pre \in {<<>>, <<"txt", " ">>},
        open \in {Fence, FenceJson},
        pad \in {<<>>, <<" ">>},
        post \in {<<>>, <<" ", "txt">>}}

\* C26: for every JSON object text J, a completion that holds J in a json
\* fence or in a plain fence, with text and whitespace around it, is parsed
\* by extract_business_info and by generate_mvp_proposal to the record that
\* the completion J alone is parsed to
C26_FenceIsTransparent ==
    \A J \in ObjectTokens :
        (out # <<>> /\ arg \in {LlmText(t) : t \in Wrappings(J)}) =>
            /\ fn = "extract" => out[1] = extract_business_info(LlmText(<<J>>), <<>>)
            /\ fn = "proposal" =>
                    out[1] = generate_mvp_proposal(LlmText(<<J>>), <<>>, EmptyDict, <<"">>)

\* a complete proposal in a plain fence between prose was parsed to the
\* proposal it holds, not to the fallback
C26_Witness ==
    /\ fn = "proposal"
    /\ arg = LlmText(<<"txt", " ">> \o Fence \o <<" ", "{prop_full}", " ">>
                     \o Fence \o <<" ", "txt">>)
    /\ out # <<>>
    /\ ~out[1].raised
    /\ out[1].value # FallbackProposal
    /\ out[1].value = MVPProposal(PropFull)

\* C27: the tier returned by determine_partnership_tier does not depend on the
\* mvp_proposal argument: the tier returned for a business_info and a proposal
\* is the tier of that business_info with every other proposal, and of the
\* same inputs again
C27_TierIgnoresProposal ==
    (fn = "tier" /\ out # <<>>) =>
        \A p \in TierProposals :
            out[1] = determine_partnership_tier(arg.business_info, p)

\* a small team with the fallback proposal was given the starter tier
C27_Witness ==
    /\ fn = "tier"
    /\ out = <<"starter">>
    /\ arg.mvp_proposal = FallbackProposal
    /\ arg.business_info["team_size"] = JInt(5)
    /\ arg.business_info["time_wasters"] = JList(Wasters(1))

\* C28: when create_conversation, add_message, update_conversation_state or
\* create_lead fails during a chat turn, the turn ends with an error to the
\* caller, and from the failing call until the next request no table changes:
\* the failed write and the writes after it are not performed, and nothing is
\* retried or buffered
C28_StoreFailureEndsTurn ==
    /\ [](chat.failed # "" => (chat.pc = "idle" /\ chat.status = 500))
    /\ [][chat'.failed # "" => db' = db]_vars

\* update_conversation_state failed after both messages of the turn were
\* stored: the conversation's row has no state and there is no lead
C28_Witness ==
    /\ chat.failed = "update_conversation_state"
    /\ chat.status = 500
    /\ Cardinality(RowsOf(db.messages, "c1")) = 2
    /\ \A i \in RowsOf(db.conversations, "c1") : db.conversations[i].state = <<>>
    /\ RowsOf(db.conversations, "c1") # {}
    /\ db.leads = <<>>

\* the canned understand questions of a transcript, in the order they were
\* appended
UnderstandQuestionsOf(messages) ==
    LET IsQuestion(m) ==
            /\ m.type = "ai"
            /\ \E q \in 1..Len(QuestionsUnderstand) :
                  m.content = <<QuestionsUnderstand[q]>>
    IN  SelectSeq(messages, IsQuestion)

\* C29: in every reachable state of a conversation questions_asked equals the
\* number of canned understand questions in the transcript, the k-th of them
\* is the k-th entry of the fixed list of 3 (none skipped, none repeated), and
\* no step makes questions_asked smaller
C29_QuestionsCounted ==
    /\ [](Started =>
            LET asked == UnderstandQuestionsOf(St.messages)
            IN  /\ St.questions_asked = Len(asked)
                /\ Len(asked) <= Len(QuestionsUnderstand)
                /\ \A k \in 1..Len(asked) :
                      asked[k].content = <<QuestionsUnderstand[k]>>)
    /\ [][(Started /\ Started') =>
              values'[1].questions_asked >= St.questions_asked]_vars

\* the third question was asked in a later call than the second, after the
\* conversation had already been through the book step
C29_Witness ==
    /\ Started
    /\ St.questions_asked = 3
    /\ Len(UnderstandQuestionsOf(St.messages)) = 3
    /\ \E i, j \in 1..Len(St.messages) :
          /\ i < j
          /\ St.messages[i] = AIMessage(CalendlyPrompt)
          /\ St.messages[j] = AIMessage(<<QuestionsUnderstand[3]>>)

----------------------------------------------------------------------------
(* The service across restarts of its process: the agent's checkpointer is *)
(* an InMemorySaver made in __init__ and the counters live in the process, *)
(* the tables are in Postgres.                                             *)

\* the process is stopped between two requests and started again
Restart ==
    /\ fn = "none"
    /\ chat.pc = "idle"
    /\ pc = "idle"
    /\ values # <<>>
    /\ values' = <<>>
    /\ metrics' = NoMetrics
    /\ UNCHANGED <<pc, input, result, llm_calls, turns, inPlaceKept, worker, fn, arg, out,
                   completion, path, chat, db, pair>>

NextRestart == NextChat \/ Restart

SpecRestart == InitChat /\ [][NextRestart]_vars

\* the conversation of the request in flight has a saved state in the store
SavedState ==
    \E i \in RowsOf(db.conversations, chat.id) : db.conversations[i].state # <<>>

\* C31: a continuation message for a conversation that has a saved state in
\* the store resumes from that state, also after a restart of the process: the
\* run it starts does not begin at stage start, with questions_asked 0 and a
\* transcript without any earlier entry
C31_ResumesFromSavedState ==
    [][(chat.pc = "process" /\ chat'.pc = "await" /\ SavedState) =>
            /\ values'[1].stage # "start"
            /\ values'[1].questions_asked > 0
            /\ Len(values'[1].messages) > 1]_vars

C33_HumanEntryPerLaterCall ==
    /\ [][(pc = "idle" /\ pc' = "understand" /\ values = <<>>) =>
            values'[1].messages = <<>>]_vars
    /\ [][(pc = "idle" /\ pc' = "understand" /\ values # <<>>) =>
            values'[1].messages =
                Append(St.messages, HumanMessage(<<input'.message>>))]_vars
    /\ [][(pc # "idle" /\ values # <<>>) =>
            Humans(values'[1].messages) = Humans(St.messages)]_vars

\* the second call of a conversation is about to run its first stage step:
\* its message is the only human entry of the transcript
C33_Witness ==
    /\ turns = 2
    /\ pc = "understand"
    /\ path = <<>>
    /\ input.message = "scheduling is a mess"
    /\ Cardinality(Humans(St.messages)) = 1
    /\ St.messages[Len(St.messages)] = HumanMessage(<<"scheduling is a mess">>)
    /\ St.messages[1].type = "ai"

\* the step is a call of db.add_message by the chat endpoint
AddMessageCalled ==
    \/ chat.pc = "await" /\ pc = "idle" /\ result.status = "returned" /\ chat' # chat
    \/ chat.pc = "store_ai" /\ chat' # chat

\* C34: every call of add_message made by the chat endpoint is for a
\* conversation_id that has a row in the conversations table, for requests
\* without a conversation_id and for requests carrying an id that was never
\* created through chat
C34_MessagesHaveConversation ==
    [][AddMessageCalled => RowsOf(db.conversations, chat.id) # {}]_vars

\* a chat turn whose result has calendly_shown has made its create_lead call
LeadCallMade ==
    /\ chat.pc = "idle"
    /\ chat.status # 0
    /\ chat.failed \in {"", "create_lead"}
    /\ result.status = "returned"
    /\ result.calendly_shown

\* C35: after any number of create_lead calls for a conversation (one per
\* chat turn whose result has calendly_shown) the leads table has exactly one
\* row for that conversation_id, and it holds the proposal and the tier of
\* the latest call
C35_OneLeadPerConversation ==
    LeadCallMade =>
        /\ Cardinality(RowsOf(db.leads, chat.id)) = 1
        /\ \A i \in RowsOf(db.leads, chat.id) :
              /\ db.leads[i].proposed_mvp = DictGet(result, "mvp_proposal", <<>>)
              /\ db.leads[i].partnership_tier = DictGet(result, "partnership_tier", <<>>)

\* the chat turn that just returned ran the propose step
ReturnedPastPropose ==
    /\ chat.pc = "idle"
    /\ chat.status = 200
    /\ \E i \in 1..Len(path) : path[i] = "propose"

\* C36: conversations_completed counts the conversations that reach the
\* proposal stage: a chat turn in which the conversation's state passed
\* through stage propose returns with the counter increased
C36_CompletedCounted ==
    ReturnedPastPropose => metrics.conversations_completed > 0

----------------------------------------------------------------------------
(* The service from the start of its process: the global agent is None     *)
(* until startup_event has made it.                                        *)

\* the globals of src/api/main.py before startup_event has run
BeforeStartup == [NoMetrics EXCEPT !.agent = FALSE]

\* startup_event makes the agent
Startup ==
    /\ ~metrics.agent
    /\ chat.pc = "idle"
    /\ metrics' = [metrics EXCEPT !.agent = TRUE]
    /\ UNCHANGED <<single, inPlaceKept, worker, chat, db, pair>>

\* chat that counts the conversation before it looks for the agent
ChatRejectedCounted(conversation_id, message, source) ==
    /\ fn = "none"
    /\ chat.pc = "idle"
    /\ ~metrics.agent
    /\ chat' = [pc |-> "idle", conversation_id |-> conversation_id, message |-> message,
                source |-> source, id |-> "c1", status |-> 503, failed |-> ""]
    /\ metrics' = [metrics EXCEPT !.conversations_started =
                        IF @ < MaxChatTurns THEN @ + 1 ELSE @]
    /\ UNCHANGED <<single, inPlaceKept, worker, db, pair>>

\* chat without an agent: HTTPException(503) before anything else is done
ChatRejected(conversation_id, message, source) ==
    /\ fn = "none"
    /\ chat.pc = "idle"
    /\ ~metrics.agent
    /\ chat' = [pc |-> "idle", conversation_id |-> conversation_id, message |-> message,
                source |-> source, id |-> "", status |-> 503, failed |-> ""]
    /\ UNCHANGED <<single, inPlaceKept, worker, db, metrics, pair>>

EarlyRequest ==
    \E c \in {<<>>, <<"c1">>}, m \in UserTexts, s \in Sources : ChatRejected(c, m, s)

InitStartup ==
    /\ values = <<>>
    /\ pc = "idle"
    /\ input = NoInput
    /\ result = NoResult
    /\ llm_calls = 0
    /\ turns = 0
    /\ inPlaceKept \in BOOLEAN
    /\ fn = "none"
    /\ arg = <<>>
    /\ out = <<>>
    /\ completion = NoCall
    /\ path = <<>>
    /\ chat = NoChat
    /\ db \in {[EmptyDb EXCEPT !.leads_unique = u] : u \in BOOLEAN}
    /\ metrics = BeforeStartup
    /\ threads = NoThreads
    /\ frames = NoFrames
    /\ solo = NoSolo
    /\ worker = NoWorker

NextStartup == EarlyRequest \/ Startup \/ NextChat

SpecStartup == InitStartup /\ [][NextStartup]_vars

\* C37: a chat request received while the agent is not initialised is
\* rejected with status 503 and changes nothing: no conversation id is
\* generated or stored, no counter is incremented, no message and no state is
\* written, no graph run is started
C37_RejectedWithoutAgent ==
    /\ [][(~metrics.agent /\ chat' # chat) =>
            /\ chat'.pc = "idle"
            /\ chat'.status = 503
            /\ chat'.id = ""
            /\ db' = db
            /\ metrics' = metrics
            /\ values' = values
            /\ pc' = pc
            /\ turns' = turns]_vars
    /\ [](~metrics.agent =>
            (db.conversations = <<>> /\ db.messages = <<>> /\ values = <<>>
             /\ metrics.conversations_started = 0))

\* a request for a new conversation was rejected before startup
C37_Witness ==
    /\ ~metrics.agent
    /\ chat.status = 503
    /\ chat.conversation_id = <<>>
    /\ chat.message = "scheduling is a mess"
    /\ db.conversations = <<>>
    /\ metrics = BeforeStartup

----------------------------------------------------------------------------
(* src/jobs/worker.py: BackgroundWorker.run, one action per await.  Times  *)
(* are counted in half hours.  Of an iteration the record keeps the tasks  *)
(* it attempted (tried), the task that raised in it (failed) and the task  *)
(* that raised in the iteration before it (owed).                          *)

MaxClock == 4

\* timedelta(hours=1) and timedelta(minutes=30), in half hours
MetricsPeriod == 2
AbandonedPeriod == 1

\* the other variables stay as they are
WorkerOnly ==
    UNCHANGED <<values, pc, input, result, llm_calls, turns, inPlaceKept, fn, arg, out,
                completion, path, chat, db, metrics, threads, frames, solo>>

\* time passes while the worker is suspended
Later == {t \in worker.clock..(worker.clock + 1) : t <= MaxClock}

\* SIGTERM or SIGINT is delivered to the process: _handle_shutdown
Signal ==
    /\ worker.pc \notin {"done", "raised"}
    /\ worker' = [worker EXCEPT !.running = FALSE, !.signalled = TRUE]
    /\ WorkerOnly

\* run up to the loop: initialize, the two last-run times
WorkerStart ==
    /\ worker.pc = "new"
    /\ \E ok \in BOOLEAN :
          worker' = IF ok
                    THEN [worker EXCEPT !.pc = "loop",
                                        !.last_metrics_run = worker.clock,
                                        !.last_abandoned_check = worker.clock]
                    ELSE [worker EXCEPT !.pc = "raised"]
    /\ WorkerOnly

\* a loop that tests the clock instead of self.running
LoopTestDeaf ==
    /\ worker.pc = "loop"
    /\ worker' = IF worker.clock < MaxClock
                 THEN [worker EXCEPT !.pc = "metrics", !.now = worker.clock,
                                     !.tried = {}, !.failed = "", !.owed = worker.failed]
                 ELSE [worker EXCEPT !.pc = "cleanup"]
    /\ WorkerOnly

\* while self.running: a new iteration reads the clock, or the loop is left
LoopTest ==
    /\ worker.pc = "loop"
    /\ worker' = IF worker.running
                 THEN [worker EXCEPT !.pc = "metrics", !.now = worker.clock,
                                     !.tried = {}, !.failed = "", !.owed = worker.failed]
                 ELSE [worker EXCEPT !.pc = "cleanup"]
    /\ WorkerOnly

\* aggregate_metrics whose error moves the last-run time all the same
AggregateMetricsStamped(w, ok) ==
    IF w.now - w.last_metrics_run > MetricsPeriod
    THEN IF ok
         THEN [w EXCEPT !.pc = "abandoned", !.tried = @ \cup {"metrics"},
                        !.last_metrics_run = w.now]
         ELSE [w EXCEPT !.pc = "error", !.tried = @ \cup {"metrics"},
                        !.failed = "metrics", !.last_metrics_run = w.now]
    ELSE [w EXCEPT !.pc = "abandoned"]

\* the hourly task: run when due, its last-run time set when it returns
AggregateMetrics(w, ok) ==
    IF w.now - w.last_metrics_run > MetricsPeriod
    THEN IF ok
         THEN [w EXCEPT !.pc = "abandoned", !.tried = @ \cup {"metrics"},
                        !.last_metrics_run = w.now]
         ELSE [w EXCEPT !.pc = "error", !.tried = @ \cup {"metrics"},
                        !.failed = "metrics"]
    ELSE [w EXCEPT !.pc = "abandoned"]

\* the half-hourly task
CheckAbandoned(w, ok) ==
    IF w.now - w.last_abandoned_check > AbandonedPeriod
    THEN IF ok
         THEN [w EXCEPT !.pc = "sleep", !.tried = @ \cup {"abandoned"},
                        !.last_abandoned_check = w.now]
         ELSE [w EXCEPT !.pc = "error", !.tried = @ \cup {"abandoned"},
                        !.failed = "abandoned"]
    ELSE [w EXCEPT !.pc = "sleep"]

MetricsStep ==
    /\ worker.pc = "metrics"
    /\ \E ok \in BOOLEAN : worker' = AggregateMetrics(worker, ok)
    /\ WorkerOnly

AbandonedStep ==
    /\ worker.pc = "abandoned"
    /\ \E ok \in BOOLEAN : worker' = CheckAbandoned(worker, ok)
    /\ WorkerOnly

\* asyncio.sleep(60) at the end of the try, asyncio.sleep(5) in the except
Sleep ==
    /\ worker.pc \in {"sleep", "error"}
    /\ \E t \in Later : worker' = [worker EXCEPT !.pc = "loop", !.clock = t]
    /\ WorkerOnly

\* cleanup after the loop, then run returns; or cleanup's error leaves run
Cleanup ==
    /\ worker.pc = "cleanup"
    /\ \E ok \in BOOLEAN :
          worker' = [worker EXCEPT !.pc = IF ok THEN "done" ELSE "raised",
                                   !.cleanups = @ + 1]
    /\ WorkerOnly

InitWorker ==
    /\ values = <<>>
    /\ pc = "idle"
    /\ input = NoInput
    /\ result = NoResult
    /\ llm_calls = 0
    /\ turns = 0
    /\ inPlaceKept = FALSE
    /\ fn = "none"
    /\ arg = <<>>
    /\ out = <<>>
    /\ completion = NoCall
    /\ path = <<>>
    /\ chat = NoChat
    /\ db = EmptyDb
    /\ metrics = NoMetrics
    /\ threads = NoThreads
    /\ frames = NoFrames
    /\ solo = NoSolo
    /\ worker = NoWorker

NextWorker ==
    \/ Signal
    \/ WorkerStart
    \/ LoopTest
    \/ MetricsStep
    \/ AbandonedStep
    \/ Sleep
    \/ Cleanup

SpecWorker == InitWorker /\ [][NextWorker]_vars

\* C38: once SIGTERM or SIGINT has been delivered to the worker, running is
\* false forever; the loop starts no new iteration after the one in progress,
\* and cleanup runs exactly once before run returns
C38_ShutdownStopsLoop ==
    /\ [](worker.signalled => ~worker.running)
    /\ [][~worker.running => ~worker'.running]_vars
    /\ [][(worker.signalled /\ worker.pc # "metrics") => worker'.pc # "metrics"]_vars
    /\ [][(worker.signalled /\ worker.pc = "loop" /\ worker' # worker) =>
            worker'.pc = "cleanup"]_vars
    /\ [](worker.cleanups <= 1)
    /\ [](worker.pc = "done" => worker.cleanups = 1)

\* the signal came during an iteration that ran the half-hourly task; the
\* loop was left after it and run has returned
C38_Witness ==
    /\ worker.signalled
    /\ worker.pc = "done"
    /\ worker.cleanups = 1
    /\ worker.tried = {"abandoned"}
    /\ worker.last_abandoned_check = worker.now
    /\ worker.now > 0

\* the step is a task of the loop raising
TaskRaises == worker.pc \in {"metrics", "abandoned"} /\ worker'.pc = "error"

\* C39 as stated: an exception of aggregate_metrics or
\* check_abandoned_conversations does not end the loop, which continues while
\* running is true; the failed task's last-run time is not advanced; and the
\* iteration after the failure attempts the failed task again
C39_FailedTaskRetriedNext ==
    /\ [][(worker.pc = "error" /\ worker'.pc # "error") => worker'.pc = "loop"]_vars
    /\ [][(worker.pc = "loop" /\ worker.running /\ worker' # worker
              /\ worker'.running) => worker'.pc = "metrics"]_vars
    /\ [][TaskRaises =>
            /\ worker'.last_metrics_run = worker.last_metrics_run
            /\ worker'.last_abandoned_check = worker.last_abandoned_check]_vars
    /\ []((worker.pc \in {"sleep", "error"} /\ worker.owed # "") =>
            worker.owed \in worker.tried)

\* C39 amended: the exception does not end the loop and does not advance the
\* failed task's last-run time, so the task is due in every later iteration;
\* the next iteration attempts it again unless the failed task is
\* check_abandoned_conversations and aggregate_metrics raises first in that
\* iteration
C39_FailedTaskStaysDue ==
    /\ [][(worker.pc = "error" /\ worker'.pc # "error") => worker'.pc = "loop"]_vars
    /\ [][(worker.pc = "loop" /\ worker.running /\ worker' # worker
              /\ worker'.running) => worker'.pc = "metrics"]_vars
    /\ [][TaskRaises =>
            /\ worker'.last_metrics_run = worker.last_metrics_run
            /\ worker'.last_abandoned_check = worker.last_abandoned_check]_vars
    /\ []((worker.pc \in {"metrics", "abandoned", "sleep", "error"}
              /\ worker.owed = "metrics") =>
            worker.now - worker.last_metrics_run > MetricsPeriod
                \/ "metrics" \in worker.tried)
    /\ []((worker.pc \in {"metrics", "abandoned", "sleep", "error"}
              /\ worker.owed = "abandoned") =>
            worker.now - worker.last_abandoned_check > AbandonedPeriod
                \/ "abandoned" \in worker.tried)
    /\ []((worker.pc \in {"sleep", "error"} /\ worker.owed # "") =>
            \/ worker.owed \in worker.tried
            \/ worker.owed = "abandoned" /\ worker.failed = "metrics")

\* check_abandoned_conversations raised in one iteration, and in the next
\* aggregate_metrics raised before it could be attempted again
C39_Witness ==
    /\ worker.pc = "error"
    /\ worker.running
    /\ worker.owed = "abandoned"
    /\ worker.failed = "metrics"
    /\ worker.tried = {"metrics"}
    /\ worker.now - worker.last_abandoned_check > AbandonedPeriod

============================================================================
